---- MODULE Spec2Model ----
(***************************************************************************)
(* The request pipeline of the API gateway (src/src/main.py): the          *)
(* middleware stack built by app.add_middleware and setup_metrics, the     *)
(* dispatch method of each middleware (src/src/core/logging.py,            *)
(* rate_limit.py, auth.py, monitoring.py), the router and the reverse      *)
(* proxy handler (src/src/core/routing.py).                                *)
(*                                                                         *)
(* A text (a header value, an address, a token) is a sequence of lexemes;  *)
(* a lexeme is a record, so that a signed token can stand in a header      *)
(* beside words, blanks and commas.  Time is counted in ticks,             *)
(* TicksPerSecond of them to the second, so that time.time() has a         *)
(* fractional part.                                                        *)
(***************************************************************************)
EXTENDS Integers, Sequences, FiniteSets, TLC

\* ------------------------------------------------------------------ bounds
\* Requests received over one run, sent one at a time.
MaxRequests == 2
\* Requests received over one run, sent in bursts.
MaxBurst == 4
\* Requests in flight at once on the event loop.
MaxInflight == 2
\* The clock stops advancing at this many ticks.
MaxTime == 3
\* Resolution of the clock: ticks to the second.
TicksPerSecond == 2
\* Largest expires_in (seconds) a token is issued with.
MaxExpiresIn == 1

\* ------------------------------------------------------- program constants
\* rate_limit.py:9, int(os.getenv("RATE_LIMIT", "5")): the environment sets 2.
RATE_LIMIT == 2
\* rate_limit.py:10, int(os.getenv("TIME_WINDOW", "60")): the environment sets 1.
TIME_WINDOW == 1
\* auth.py:10
SECRET_KEY == "supersecretjwtkey"
\* routing.py:7
BACKEND_SERVICE == "http://localhost:9000"

\* ------------------------------------------------------------------- texts
Word(t) == [text |-> t, sig |-> "", sub |-> "", exp |-> 0]
SP == Word(" ")
COMMA == Word(",")
\* A compact JWS: the key it was signed with and its payload (sub, exp).
Jws(key, sub, exp) == [text |-> "jws", sig |-> key, sub |-> sub, exp |-> exp]

\* str.lower() on one lexeme.
LowerLexeme(x) ==
    IF x.text \in {"Bearer", "BEARER", "bearer"} THEN [x EXCEPT !.text = "bearer"]
    ELSE IF x.text \in {"Token", "token"} THEN [x EXCEPT !.text = "token"]
    ELSE x

Lower(s) == [i \in 1..Len(s) |-> LowerLexeme(s[i])]

RECURSIVE LStrip(_)
LStrip(s) == IF s # <<>> /\ Head(s) = SP THEN LStrip(Tail(s)) ELSE s

RECURSIVE RStrip(_)
RStrip(s) ==
    IF s # <<>> /\ s[Len(s)] = SP THEN RStrip(SubSeq(s, 1, Len(s) - 1)) ELSE s

\* str.strip()
Strip(s) == RStrip(LStrip(s))

\* The longest prefix of s holding no lexeme d.
RECURSIVE UpTo(_, _)
UpTo(s, d) == IF s = <<>> \/ Head(s) = d THEN <<>> ELSE <<Head(s)>> \o UpTo(Tail(s), d)

\* str.split(",")[0]
FirstField(s) == UpTo(s, COMMA)

\* str.split(): the maximal runs of non-blank lexemes.
RECURSIVE Split(_)
Split(s) ==
    LET t == LStrip(s)
        w == UpTo(t, SP)
    IN  IF t = <<>> THEN <<>> ELSE <<w>> \o Split(SubSeq(t, Len(w) + 1, Len(t)))

\* A header of the request: absent (headers.get gives None) or a text. A
\* request may carry the same header on several lines: value is the first line
\* (what request.headers.get returns), last the last one (what a dict built
\* from request.headers.items() keeps).
NoHeader == [present |-> FALSE, value |-> <<>>, last |-> <<>>]
Header(v) == [present |-> TRUE, value |-> v, last |-> v]
Repeated(v, w) == [present |-> TRUE, value |-> v, last |-> w]
\* {k.lower(): v for k, v in request.headers.items()}.get(name): a later line
\* of the same name overwrites the earlier one.
DictGet(h) == [present |-> h.present, value |-> h.last, last |-> h.last]
\* Python truthiness of headers.get(...): None and "" are false.
Truthy(h) == h.present /\ h.value # <<>>

\* ------------------------------------------------------------------- clock
\* int(x) of a float x = n / TicksPerSecond: truncation towards zero.
IntOf(n) == IF n >= 0 THEN n \div TicksPerSecond ELSE -((-n) \div TicksPerSecond)

\* --------------------------------------------------------------- addresses
\* request.client: None when the transport gives no peer address.
NoClient == [present |-> FALSE, host |-> <<>>]
Client(h) == [present |-> TRUE, host |-> h]

\* The value a function returns, or the exception it raises.
Returns(v) == [raised |-> FALSE, value |-> v]
Raises == [raised |-> TRUE, value |-> <<>>]

UNKNOWN == <<Word("unknown")>>

\* request.client.host or "unknown": AttributeError when request.client is None.
PeerHost(client) ==
    IF ~client.present THEN Raises
    ELSE IF client.host # <<>> THEN Returns(client.host)
    ELSE Returns(UNKNOWN)

\* A resolver that trusts no header: the caller is the transport peer.
PeerOnly_get_client_ip(r) == PeerHost(r.client)

\* RateLimitMiddleware.get_client_ip
RateLimit_get_client_ip(r) ==
    IF Truthy(r.x_forwarded_for) THEN Returns(Strip(FirstField(r.x_forwarded_for.value)))
    ELSE IF Truthy(r.x_real_ip) THEN Returns(r.x_real_ip.value)
    ELSE PeerHost(r.client)

\* RequestLoggingMiddleware.get_client_ip: the headers are copied into a dict
\* with lower-cased names first, and the lookups are made in the dict.
Logging_get_client_ip(r) ==
    LET forwarded_for == DictGet(r.x_forwarded_for)
        real_ip == DictGet(r.x_real_ip)
    IN  IF Truthy(forwarded_for) THEN Returns(Strip(FirstField(forwarded_for.value)))
        ELSE IF Truthy(real_ip) THEN Returns(real_ip.value)
        ELSE PeerHost(r.client)

\* ------------------------------------------------------------------ tokens
\* create_jwt_token(data, expires_in) called at tick t: exp = issue time + expires_in,
\* written into the token in whole seconds.
create_jwt_token(sub, expires_in, t) ==
    <<Jws(SECRET_KEY, sub, IntOf(t) + expires_in)>>

\* A decoding that reads the claims and checks the expiry without verifying
\* the signature.
JwtDecodeUnverified(token, key, t) ==
    IF Len(token) # 1 \/ token[1].text # "jws" THEN "JWTError"
    ELSE IF token[1].exp < IntOf(t) THEN "ExpiredSignatureError"
    ELSE "payload"

\* jwt.decode(token, key, algorithms=["HS256"]) at tick t: the signature is
\* verified first, then the exp claim against the clock in whole seconds.
\* ExpiredSignatureError is a subclass of JWTError.
JwtDecode(token, key, t) ==
    IF Len(token) # 1 \/ token[1].text # "jws" THEN "JWTError"
    ELSE IF token[1].sig # key THEN "JWTError"
    ELSE IF token[1].exp < IntOf(t) THEN "ExpiredSignatureError"
    ELSE "payload"

Payload(token) == [sub |-> token[1].sub, exp |-> token[1].exp]
NoUser == [sub |-> "", exp |-> -1]

\* ------------------------------------------------------------------- paths
SLASH == Word("/")
PathOf(segs) == [i \in 1..(2 * Len(segs)) |-> IF i % 2 = 1 THEN SLASH ELSE Word(segs[i \div 2])]

\* One lexeme starts with another.
LexemeStartsWith(a, b) ==
    \/ a = b
    \/ <<a.text, b.text>> \in {<<"healthz", "health">>}

\* str.startswith(prefix), prefix not empty.
StartsWith(s, prefix) ==
    /\ Len(s) >= Len(prefix)
    /\ \A i \in 1..(Len(prefix) - 1) : s[i] = prefix[i]
    /\ LexemeStartsWith(s[Len(prefix)], prefix[Len(prefix)])

\* Only the metrics prefix let through.
IsInternalPathMetricsOnly(path) == StartsWith(path, PathOf(<<"metrics">>))
\* auth.py:37, the paths the authenticator lets through unverified.
IsInternalPath(path) ==
    StartsWith(path, PathOf(<<"health">>)) \/ StartsWith(path, PathOf(<<"metrics">>))

\* -------------------------------------------------------- middleware stack
\* The middleware in the order main.py adds it: app.add_middleware at lines
\* 53, 56, 59, then setup_metrics(app) at line 75 (@app.middleware("http")).
Added == <<"RequestLoggingMiddleware", "RateLimitMiddleware", "AuthMiddleware",
           "metrics_middleware">>

\* Starlette's add_middleware: self.user_middleware.insert(0, middleware).
add_middleware(stack, m) == <<m>> \o stack

RECURSIVE AddAll(_)
AddAll(added) ==
    IF added = <<>> THEN <<>>
    ELSE add_middleware(AddAll(SubSeq(added, 1, Len(added) - 1)), added[Len(added)])

user_middleware == AddAll(Added)

\* build_middleware_stack wraps in reverse, so the first entry is the outermost:
\* ServerErrorMiddleware, the user middleware, then ExceptionMiddleware and the router.
Stack == <<"ServerErrorMiddleware">> \o user_middleware \o <<"router">>

IndexOf(stage) == CHOOSE i \in 1..Len(Stack) : Stack[i] = stage
\* The stage call_next hands the request to, and the stage a result returns to.
Inner(stage) == Stack[IndexOf(stage) + 1]
Outer(stage) == Stack[IndexOf(stage) - 1]

\* ------------------------------------------------------------------ routes
\* main.py:66-70 with api/health.py, api/metrics.py and core/routing.py:
\* the path of each route, whether it ends in {path:path}, its methods, its endpoint.
Routes == <<
    [path |-> PathOf(<<"health", "live">>),  rest |-> FALSE, methods |-> {"GET"}, endpoint |-> "liveness"],
    [path |-> PathOf(<<"health", "ready">>), rest |-> FALSE, methods |-> {"GET"}, endpoint |-> "readiness"],
    [path |-> PathOf(<<"metrics">>) \o <<SLASH>>, rest |-> FALSE, methods |-> {"GET"}, endpoint |-> "metrics"],
    [path |-> PathOf(<<"metrics", "summary">>), rest |-> FALSE, methods |-> {"GET"}, endpoint |-> "summary"],
    [path |-> PathOf(<<"api">>) \o <<SLASH>>, rest |-> TRUE,
     methods |-> {"GET", "POST", "PUT", "DELETE"}, endpoint |-> "proxy"] >>

\* The route's path regex matches the request path.
PathMatches(route, path) ==
    IF route.rest
    THEN Len(path) >= Len(route.path) /\ SubSeq(path, 1, Len(route.path)) = route.path
    ELSE path = route.path

\* Router: the first route matching path and method; else the first matching
\* the path alone (405); else none (404).
FullMatches(method, path) ==
    {i \in 1..Len(Routes) : PathMatches(Routes[i], path) /\ method \in Routes[i].methods}
PartialMatches(path) == {i \in 1..Len(Routes) : PathMatches(Routes[i], path)}
Least(S) == CHOOSE i \in S : \A j \in S : i <= j

RouteFor(method, path) ==
    IF FullMatches(method, path) # {} THEN Routes[Least(FullMatches(method, path))].endpoint
    ELSE IF PartialMatches(path) # {} THEN "405"
    ELSE "404"

\* The {path:path} parameter of the proxy route.
PathParam(path) == SubSeq(path, Len(PathOf(<<"api">>)) + 2, Len(path))

\* A query string is the sequence of its key=value pairs, in the order sent.
Pair(key, value) == [key |-> key, value |-> value]
\* The keys of the pairs, each once, in the order of their first appearance.
RECURSIVE KeysOf(_)
KeysOf(q) ==
    IF q = <<>> THEN <<>>
    ELSE LET front == SubSeq(q, 1, Len(q) - 1)
             k == q[Len(q)].key
         IN  IF \E i \in 1..Len(front) : front[i].key = k THEN KeysOf(front)
             ELSE Append(KeysOf(front), k)
\* The value of the last pair of the key.
LastValue(q, k) ==
    q[CHOOSE i \in 1..Len(q) : q[i].key = k /\ \A j \in (i + 1)..Len(q) : q[j].key # k].value
\* params=request.query_params, routing.py:32: the query parameters are handed
\* over as a mapping, which the client reads through items(); a mapping has one
\* value for a key, the one of the last pair of that key.
ParamsOf(q) == [i \in 1..Len(KeysOf(q)) |-> Pair(KeysOf(q)[i], LastValue(q, KeysOf(q)[i]))]

\* ------------------------------------------------------------------- state
VARIABLES
    req,             \* the requests in flight, by arrival number: headers, place in the stack, result
    requests_store,  \* rate_limit.py:13: client ip -> [count, time]
    window_log,      \* history: client ip -> the count of the record its window replaced, and the
                     \* requests the limiter has handled since the window began, each with its decision
    now,             \* time.time(), in ticks
    received         \* requests received so far

vars == <<req, requests_store, window_log, now, received>>

\* request.state.request_id, the X-Request-ID of a response.
NoId == [from |-> "none", text |-> <<>>, n |-> 0]
\* getattr(request.state, "request_id", "unknown")
UnknownId == [from |-> "default", text |-> UNKNOWN, n |-> 0]
HeaderId(v) == [from |-> "header", text |-> v, n |-> 0]
\* str(uuid.uuid4())[:8]: the k-th id drawn.
generate_request_id(k) == [from |-> "uuid4", text |-> <<>>, n |-> k]

\* What travels outward through the stack: a response or a raised exception.
NoResult == [kind |-> "none", status |-> 0, detail |-> "", by |-> "",
             retry_after |-> -1, x_request_id |-> NoId]
Response(status, detail, by) ==
    [kind |-> "response", status |-> status, detail |-> detail, by |-> by,
     retry_after |-> -1, x_request_id |-> NoId]
Raised(detail, by) ==
    [kind |-> "exception", status |-> 0, detail |-> detail, by |-> by,
     retry_after |-> -1, x_request_id |-> NoId]

\* What the backend did with the upstream call.
NoBackend == [kind |-> "none", status |-> 0, json |-> FALSE, valid |-> FALSE]

\* A request as it is received, before any stage has seen it.
NewRequest ==
    [pos |-> "new", dir |-> "in", n |-> 0,
     method |-> "", path |-> <<>>,
     x_request_id |-> NoHeader, authorization |-> NoHeader,
     query |-> <<>>, body |-> <<>>,
     x_forwarded_for |-> NoHeader, x_real_ip |-> NoHeader, client |-> NoClient,
     request_id |-> NoId, user |-> NoUser,
     result |-> NoResult, log |-> <<>>, trace |-> <<>>, upstream |-> <<>>,
     backend |-> NoBackend]

LogEntry(logger, message, id) == [logger |-> logger, message |-> message, request_id |-> id]

\* getattr(request.state, "request_id", "unknown")
StateRequestId(r) == IF r.request_id = NoId THEN UnknownId ELSE r.request_id

\* The stage hands the request to call_next.
CallNext(r, stage) == [r EXCEPT !.pos = Inner(stage), !.dir = "in"]
\* The stage returns a response or raises: the result goes to the stage around it.
Return(r, stage, result) == [r EXCEPT !.pos = Outer(stage), !.dir = "out", !.result = result]
Enter(r, stage) == [r EXCEPT !.trace = Append(@, <<stage, "in">>)]
Leave(r, stage) == [r EXCEPT !.trace = Append(@, <<stage, "out">>)]
Log(r, logger, message) ==
    [r EXCEPT !.log = Append(@, LogEntry(logger, message, StateRequestId(r)))]

At(s, stage, dir) == req[s].pos = stage /\ req[s].dir = dir

Init ==
    /\ req = <<>>
    /\ requests_store = <<>>
    /\ window_log = <<>>
    /\ now = 0
    /\ received = 0

\* ----------------------------------------------------- what clients send
Peer == Client(<<Word("10.0.0.9")>>)

\* Tokens issued at start-up; one signed with another key; one that is no token.
IssuedTokens == {create_jwt_token("u1", e, 0) : e \in 0..MaxExpiresIn}
ForgedToken == <<Jws("anotherkey", "u1", MaxExpiresIn)>>
Tokens == IssuedTokens \cup {ForgedToken}

Bearer(word, token) == Header(<<Word(word), SP>> \o token)

AuthHeaders ==
    {NoHeader, Header(<<>>), Header(<<Word("Token"), SP, Word("abc")>>),
     Header(<<Word("Bearer"), SP, Word("abc")>>)}
    \cup {Bearer("Bearer", t) : t \in Tokens}
    \cup {Header(<<Word("bearer"), SP, SP>> \o create_jwt_token("u1", MaxExpiresIn, 0)),
          Header(<<Word("Bearer"), SP>> \o create_jwt_token("u1", MaxExpiresIn, 0)
                    \o <<SP, Word("x")>>)}

\* Method and path of a request, with no query string and no body, and the
\* same with a query string and a body.
Target(method, path) == [method |-> method, path |-> path, query |-> <<>>, body |-> <<>>]
TargetWith(method, path, query, body) ==
    [method |-> method, path |-> path, query |-> query, body |-> body]
Targets ==
    {Target("GET", PathOf(<<"health", "live">>)),
     Target("GET", PathOf(<<"metrics">>) \o <<SLASH>>),
     Target("GET", PathOf(<<"healthz">>)),
     Target("GET", PathOf(<<"api", "users">>)),
     TargetWith("POST", PathOf(<<"api", "users">>),
                <<Pair("tag", "a"), Pair("page", "1"), Pair("tag", "b")>>, <<Word("{}")>>),
     TargetWith("PUT", PathOf(<<"api", "users">>), <<Pair("page", "1")>>, <<Word("{}")>>),
     Target("PATCH", PathOf(<<"api", "users">>))}

RequestIdHeaders == {NoHeader, Header(<<Word("cid-1")>>)}

\* X-Forwarded-For, X-Real-IP and the transport peer of a request.
Origins ==
    {[x_forwarded_for |-> NoHeader, x_real_ip |-> NoHeader, client |-> Peer],
     [x_forwarded_for |-> Header(<<Word("10.0.0.1")>>), x_real_ip |-> NoHeader, client |-> Peer],
     [x_forwarded_for |-> Header(<<Word("10.0.0.2"), COMMA, SP, Word("10.0.0.1")>>),
      x_real_ip |-> Header(<<Word("10.0.0.1")>>), client |-> Peer],
     [x_forwarded_for |-> Repeated(<<Word("10.0.0.1")>>, <<Word("10.0.0.2")>>),
      x_real_ip |-> NoHeader, client |-> Peer],
     [x_forwarded_for |-> NoHeader, x_real_ip |-> Header(<<Word("10.0.0.1")>>), client |-> NoClient],
     [x_forwarded_for |-> NoHeader, x_real_ip |-> NoHeader, client |-> Client(<<>>)],
     [x_forwarded_for |-> NoHeader, x_real_ip |-> NoHeader, client |-> NoClient]}

Inbound(method, path, xrid, auth, origin) ==
    [method |-> method, path |-> path, query |-> <<>>, body |-> <<>>,
     x_request_id |-> xrid, authorization |-> auth,
     x_forwarded_for |-> origin.x_forwarded_for, x_real_ip |-> origin.x_real_ip,
     client |-> origin.client]

\* Every request a client may send, one at a time.
Requests ==
    {[Inbound(t.method, t.path, x, a, o) EXCEPT !.query = t.query, !.body = t.body] :
        t \in Targets, x \in RequestIdHeaders, a \in AuthHeaders, o \in Origins}

\* The requests of a burst, sent by one caller while others of its are in flight.
BurstOrigin == [x_forwarded_for |-> NoHeader, x_real_ip |-> NoHeader, client |-> Peer]
BurstRequests ==
    {Inbound("GET", PathOf(<<"health", "live">>), NoHeader, NoHeader, BurstOrigin),
     Inbound("GET", PathOf(<<"api", "users">>), NoHeader,
             Bearer("Bearer", create_jwt_token("u1", MaxExpiresIn, 0)), BurstOrigin)}

\* ------------------------------------------------------------ the pipeline
\* A request is received: it enters the stack below ServerErrorMiddleware.
Receive(inbound, most) ==
    /\ received < most
    /\ received' = received + 1
    /\ req' = (received + 1) :>
                 [NewRequest EXCEPT
                    !.pos = Inner("ServerErrorMiddleware"), !.dir = "in", !.n = received + 1,
                    !.method = inbound.method, !.path = inbound.path,
                    !.query = inbound.query, !.body = inbound.body,
                    !.x_request_id = inbound.x_request_id,
                    !.authorization = inbound.authorization,
                    !.x_forwarded_for = inbound.x_forwarded_for,
                    !.x_real_ip = inbound.x_real_ip,
                    !.client = inbound.client]
               @@ req
    /\ UNCHANGED <<requests_store, window_log, now>>

\* One client at a time sends any request.
Arrive ==
    /\ DOMAIN req = {}
    /\ \E inbound \in Requests : Receive(inbound, MaxRequests)

\* Clients send a burst: a request arrives while others are in flight.
ArriveInBurst ==
    /\ Cardinality(DOMAIN req) < MaxInflight
    /\ \E inbound \in BurstRequests : Receive(inbound, MaxBurst)

\* monitoring.py:28-30, metrics_middleware up to its call_next.
MetricsDispatch(s) ==
    /\ At(s, "metrics_middleware", "in")
    /\ req' = [req EXCEPT ![s] = CallNext(Enter(@, "metrics_middleware"), "metrics_middleware")]
    /\ UNCHANGED <<requests_store, window_log, now, received>>

\* monitoring.py:30-38: a raised exception passes through; a response is counted.
MetricsReturn(s) ==
    /\ At(s, "metrics_middleware", "out")
    /\ req' = [req EXCEPT ![s] =
                 Return(Leave(@, "metrics_middleware"), "metrics_middleware", @.result)]
    /\ UNCHANGED <<requests_store, window_log, now, received>>

\* The except clauses with the general JWTError written first.
ExceptClausesGeneralFirst == <<"JWTError", "ExpiredSignatureError", "Exception">>
\* auth.py:75-121: the except clauses in the order they are written.
ExceptClauses == <<"ExpiredSignatureError", "JWTError", "Exception">>
IsInstance(e, cls) ==
    \/ e = cls
    \/ e = "ExpiredSignatureError" /\ cls = "JWTError"
    \/ cls = "Exception"
Handler(e) ==
    ExceptClauses[Least({i \in 1..Len(ExceptClauses) : IsInstance(e, ExceptClauses[i])})]
AuthErrorResponse(e) ==
    IF Handler(e) = "ExpiredSignatureError" THEN Response(401, "Token expired", "AuthMiddleware")
    ELSE IF Handler(e) = "JWTError" THEN Response(401, "Invalid token", "AuthMiddleware")
    ELSE Response(500, "Unexpected error", "AuthMiddleware")
AuthErrorMessage(e) ==
    IF Handler(e) = "ExpiredSignatureError" THEN "Expired JWT token"
    ELSE IF Handler(e) = "JWTError" THEN "Invalid JWT token"
    ELSE "Unexpected error during authentication"

\* auth.py:60-61
WellFormed(parts) == ~(Len(parts) # 2 \/ Lower(parts[1]) # <<Word("bearer")>>)

\* AuthMiddleware.dispatch, auth.py:24-121.
AuthDispatch(s) ==
    /\ At(s, "AuthMiddleware", "in")
    /\ LET r == Enter(req[s], "AuthMiddleware")
           parts == Split(r.authorization.value)
           stage == "AuthMiddleware"
           logger == "api_gateway.authmiddleware"
       IN  IF IsInternalPath(r.path)
           THEN req' = [req EXCEPT ![s] =
                          CallNext(Log(r, logger, "Skipping auth for internal endpoint"), stage)]
           ELSE IF ~Truthy(r.authorization)
           THEN IF ~r.client.present
                THEN \* client_ip=request.client.host, an argument of the log call
                     req' = [req EXCEPT ![s] = Return(r, stage, Raised("AttributeError", stage))]
                ELSE req' = [req EXCEPT ![s] =
                               Return(Log(r, logger, "Missing authorization header"), stage,
                                      Response(401, "Authorization header missing", stage))]
           ELSE IF ~WellFormed(parts)
           THEN req' = [req EXCEPT ![s] =
                          Return(Log(r, logger, "Invalid authorization header format"), stage,
                                 Response(401, "Invalid Authorization header format", stage))]
           ELSE \E fault \in BOOLEAN :
                  LET outcome == IF fault THEN "Exception"
                                 ELSE JwtDecode(parts[2], SECRET_KEY, now)
                  IN  IF outcome = "payload"
                      THEN req' = [req EXCEPT ![s] =
                                     CallNext(Log([r EXCEPT !.user = Payload(parts[2])],
                                                  logger, "Authentication successful"), stage)]
                      ELSE req' = [req EXCEPT ![s] =
                                     Return(Log(r, logger, AuthErrorMessage(outcome)), stage,
                                            AuthErrorResponse(outcome))]
    /\ UNCHANGED <<requests_store, window_log, now, received>>

\* auth.py:121, return await call_next(request): what comes back is returned as it is.
AuthReturn(s) ==
    /\ At(s, "AuthMiddleware", "out")
    /\ req' = [req EXCEPT ![s] = Return(Leave(@, "AuthMiddleware"), "AuthMiddleware", @.result)]
    /\ UNCHANGED <<requests_store, window_log, now, received>>

\* A reset that already counts the request that caused it.
FreshRecordCountingTheRequest(t) == [count |-> 1, time |-> t]
\* rate_limit.py:39 and 43, {"count": 0, "time": now}
FreshRecord(t) == [count |-> 0, time |-> t]
\* The comparison written >=: the window ends at its last instant.
WindowExpiredAtBoundary(record, t) == t - record.time >= TIME_WINDOW * TicksPerSecond
\* rate_limit.py:42, now - record["time"] > TIME_WINDOW
WindowExpired(record, t) == t - record.time > TIME_WINDOW * TicksPerSecond
\* The increment is made on a copy and lost.
IncrementLost(record) == record
\* rate_limit.py:51, record["count"] += 1
Incremented(record) == [record EXCEPT !.count = @ + 1]
\* The comparison written >=.
LimitExceededAtLimit(record) == record.count >= RATE_LIMIT
\* rate_limit.py:65, record["count"] > RATE_LIMIT
LimitExceeded(record) == record.count > RATE_LIMIT
\* The time elapsed in the window given for the time remaining.
RemainingTimeElapsed(record, t) == IntOf(t - record.time)
\* The remaining time rounded up instead of down.
RemainingTimeRoundedUp(record, t) ==
    -IntOf(-(TIME_WINDOW * TicksPerSecond - (t - record.time)) - (TicksPerSecond - 1))
\* rate_limit.py:66, int(TIME_WINDOW - (now - record["time"]))
RemainingTime(record, t) == IntOf(TIME_WINDOW * TicksPerSecond - (t - record.time))

\* A table bounded to one record: a new key evicts the record held.
PutEvicting(d, k, v) ==
    IF k \in DOMAIN d \/ DOMAIN d = {}
    THEN [x \in DOMAIN d \cup {k} |-> IF x = k THEN v ELSE d[x]]
    ELSE [x \in {k} |-> v]
\* An assignment that replaces the table by the one record.
PutAlone(d, k, v) == [x \in {k} |-> v]
\* dict assignment d[k] = v
Put(d, k, v) == [x \in DOMAIN d \cup {k} |-> IF x = k THEN v ELSE d[x]]

\* RateLimitMiddleware.dispatch, rate_limit.py:23-85: no await between the
\* lookup and the assignment, so the event loop runs them as one step.
RateLimitDispatch(s) ==
    /\ At(s, "RateLimitMiddleware", "in")
    /\ LET r == Enter(req[s], "RateLimitMiddleware")
           stage == "RateLimitMiddleware"
           logger == "api_gateway.ratelimitmiddleware"
           ip == RateLimit_get_client_ip(r)
           known == ip.value \in DOMAIN requests_store
           found == IF known THEN requests_store[ip.value] ELSE FreshRecord(now)
           reset == WindowExpired(found, now)
           record == IF reset THEN FreshRecord(now) ELSE found
           stored == Incremented(record)
           denied == LimitExceeded(stored)
           l1 == IF reset THEN Log(r, logger, "Rate limit window reset") ELSE r
           l2 == Log(l1, logger, "Rate limit check")
       IN  IF ip.raised
           THEN /\ req' = [req EXCEPT ![s] = Return(r, stage, Raised("AttributeError", stage))]
                /\ UNCHANGED <<requests_store, window_log>>
           ELSE /\ requests_store' = Put(requests_store, ip.value, stored)
                /\ window_log' =
                     Put(window_log, ip.value,
                         LET entry == [n |-> r.n, allowed |-> ~denied]
                         IN  IF known /\ ~reset
                             THEN [window_log[ip.value] EXCEPT !.reqs = Append(@, entry)]
                             ELSE [replaced |-> IF known THEN found.count ELSE 0,
                                   reqs |-> <<entry>>])
                /\ IF denied
                   THEN req' = [req EXCEPT ![s] =
                                  Return(Log(l2, logger, "Rate limit exceeded"), stage,
                                         [Response(429, "Rate limit exceeded", stage)
                                             EXCEPT !.retry_after = RemainingTime(stored, now)])]
                   ELSE req' = [req EXCEPT ![s] = CallNext(l2, stage)]
    /\ UNCHANGED <<now, received>>

\* rate_limit.py:85, return await call_next(request)
RateLimitReturn(s) ==
    /\ At(s, "RateLimitMiddleware", "out")
    /\ req' = [req EXCEPT ![s] =
                 Return(Leave(@, "RateLimitMiddleware"), "RateLimitMiddleware", @.result)]
    /\ UNCHANGED <<requests_store, window_log, now, received>>

\* logging.py:99, request.headers.get("X-Request-ID") or self.generate_request_id()
CorrelationId(r) ==
    IF Truthy(r.x_request_id) THEN HeaderId(r.x_request_id.value)
    ELSE generate_request_id(r.n)

\* RequestLoggingMiddleware.dispatch up to its call_next, logging.py:96-117.
LoggingDispatch(s) ==
    /\ At(s, "RequestLoggingMiddleware", "in")
    /\ LET r == Enter(req[s], "RequestLoggingMiddleware")
           stage == "RequestLoggingMiddleware"
           ip == Logging_get_client_ip(r)
           d == [r EXCEPT !.request_id = CorrelationId(r)]
       IN  IF ip.raised
           THEN req' = [req EXCEPT ![s] = Return(r, stage, Raised("AttributeError", stage))]
           ELSE req' = [req EXCEPT ![s] =
                          CallNext(Log(d, "api_gateway.requests", "Incoming request"), stage)]
    /\ UNCHANGED <<requests_store, window_log, now, received>>

\* RequestLoggingMiddleware.dispatch after its call_next, logging.py:117-154.
LoggingReturn(s) ==
    /\ At(s, "RequestLoggingMiddleware", "out")
    /\ LET r == Leave(req[s], "RequestLoggingMiddleware")
           stage == "RequestLoggingMiddleware"
       IN  IF r.result.kind = "exception"
           THEN req' = [req EXCEPT ![s] =
                          Return(Log(r, "api_gateway.requests", "Request failed"), stage, r.result)]
           ELSE req' = [req EXCEPT ![s] =
                          Return(Log(r, "api_gateway.requests", "Request completed"), stage,
                                 [r.result EXCEPT !.x_request_id = r.request_id])]
    /\ UNCHANGED <<requests_store, window_log, now, received>>

\* What the backend may do with one upstream call: answer (any status, JSON or
\* not, a body that decodes or not), refuse the connection or fail to resolve
\* (httpx.ConnectError), or let the 30 s timeout expire (httpx.ReadTimeout).
BackendStatuses == {200, 500}
\* A backend that never answers, called without a timeout: the call never ends.
NoUpstreamOutcome == {}
UpstreamOutcomes ==
    {[kind |-> "response", status |-> st, json |-> j, valid |-> j] :
        st \in BackendStatuses, j \in BOOLEAN}
    \cup {[kind |-> "response", status |-> st, json |-> TRUE, valid |-> FALSE] :
            st \in BackendStatuses}
    \cup {[kind |-> k, status |-> 0, json |-> FALSE, valid |-> FALSE] :
            k \in {"ConnectError", "ReadTimeout"}}

\* Only connection failures caught, a timeout left to propagate.
IsRequestErrorConnectOnly(kind) == kind \in {"ConnectError"}
\* httpx.RequestError and its subclasses (TransportError: TimeoutException, NetworkError).
IsRequestError(kind) == kind \in {"ConnectError", "ReadTimeout"}

\* ExceptionMiddleware and the router, main.py:66-70: the endpoint is chosen
\* and, unless it is the proxy, answers at once.
Route(s) ==
    /\ At(s, "router", "in")
    /\ LET r == Enter(req[s], "router")
           endpoint == RouteFor(r.method, r.path)
           call == [method |-> r.method,
                    url |-> <<Word(BACKEND_SERVICE), SLASH>> \o PathParam(r.path),
                    params |-> ParamsOf(r.query),
                    content |-> r.body]
       IN  IF endpoint = "404"
           THEN req' = [req EXCEPT ![s] = Return(r, "router", Response(404, "Not Found", "router"))]
           ELSE IF endpoint = "405"
           THEN req' = [req EXCEPT ![s] =
                          Return(r, "router", Response(405, "Method Not Allowed", "router"))]
           ELSE IF endpoint = "proxy"
           THEN \* routing.py:28-35, await client.request(...)
                req' = [req EXCEPT ![s] =
                          [Enter(r, "proxy") EXCEPT !.pos = "upstream",
                                                    !.upstream = Append(@, call)]]
           ELSE req' = [req EXCEPT ![s] = Return(r, "router", Response(200, endpoint, endpoint))]
    /\ UNCHANGED <<requests_store, window_log, now, received>>

\* proxy after the upstream call, routing.py:37-52, and ExceptionMiddleware,
\* which turns the HTTPException into a response.
ProxyResult(outcome) ==
    IF IsRequestError(outcome.kind)
    THEN Response(503, "Backend service unavailable", "proxy")
    ELSE IF outcome.json
    THEN IF outcome.valid THEN Response(200, "json", "proxy")
         ELSE Raised("JSONDecodeError", "proxy")
    ELSE Response(200, "text", "proxy")

\* A handler that calls the backend a second time after a failed call.
AfterUpstreamRetrying(r, outcome) ==
    IF IsRequestError(outcome.kind) /\ Len(r.upstream) < 2
    THEN [r EXCEPT !.upstream = Append(@, @[1])]
    ELSE Return([Leave(r, "proxy") EXCEPT !.backend = outcome], "router", ProxyResult(outcome))
\* routing.py:37-47: whatever the call gave, the handler ends with it; the
\* call is not made again.
AfterUpstream(r, outcome) ==
    Return([Leave(r, "proxy") EXCEPT !.backend = outcome], "router", ProxyResult(outcome))

UpstreamReturn(s) ==
    /\ req[s].pos = "upstream"
    /\ \E outcome \in UpstreamOutcomes :
         req' = [req EXCEPT ![s] = AfterUpstream(@, outcome)]
    /\ UNCHANGED <<requests_store, window_log, now, received>>

\* ServerErrorMiddleware: an exception that reaches it becomes a 500; the
\* response is sent.
Respond(s) ==
    /\ At(s, "ServerErrorMiddleware", "out")
    /\ req' = [req EXCEPT ![s] =
                 [@ EXCEPT !.pos = "done",
                           !.result = IF @.kind = "exception"
                                      THEN Response(500, "Internal Server Error",
                                                    "ServerErrorMiddleware")
                                      ELSE @]]
    /\ UNCHANGED <<requests_store, window_log, now, received>>

\* The request context is discarded once the response is sent.
Close(s) ==
    /\ req[s].pos = "done"
    /\ req' = [k \in DOMAIN req \ {s} |-> req[k]]
    /\ UNCHANGED <<requests_store, window_log, now, received>>

\* Time passes.
Tick ==
    /\ now < MaxTime
    /\ now' = now + 1
    /\ UNCHANGED <<req, requests_store, window_log, received>>

Step(s) ==
    \/ MetricsDispatch(s)
    \/ AuthDispatch(s)
    \/ RateLimitDispatch(s)
    \/ LoggingDispatch(s)
    \/ Route(s)
    \/ UpstreamReturn(s)
    \/ LoggingReturn(s)
    \/ RateLimitReturn(s)
    \/ AuthReturn(s)
    \/ MetricsReturn(s)
    \/ Respond(s)
    \/ Close(s)

Next == Tick \/ Arrive \/ \E s \in DOMAIN req : Step(s)

NextInBurst == Tick \/ ArriveInBurst \/ \E s \in DOMAIN req : Step(s)

\* One client at a time, sending any request.
Spec == Init /\ [][Next]_vars

\* Bursts of requests interleaved on the event loop.
SpecBurst == Init /\ [][NextInBurst]_vars

\* Two callers, one behind a proxy that names it in X-Forwarded-For, sending
\* one request after another.
ProxiedOrigin ==
    [x_forwarded_for |-> Header(<<Word("10.0.0.1")>>), x_real_ip |-> NoHeader, client |-> Peer]
CallerRequests ==
    {Inbound("GET", PathOf(<<"health", "live">>), NoHeader, NoHeader, BurstOrigin),
     Inbound("GET", PathOf(<<"api", "users">>), NoHeader,
             Bearer("Bearer", create_jwt_token("u1", MaxExpiresIn, 0)), ProxiedOrigin)}

ArriveFromCallers ==
    /\ DOMAIN req = {}
    /\ \E inbound \in CallerRequests : Receive(inbound, MaxBurst)

NextFromCallers == Tick \/ ArriveFromCallers \/ \E s \in DOMAIN req : Step(s)

\* The event loop runs every coroutine that can run: the request in flight
\* is eventually given its next step, and the upstream call ends (httpx
\* timeout=30.0, routing.py:28).
SpecFair ==
    /\ Init /\ [][NextFromCallers]_vars
    /\ WF_vars(\E s \in DOMAIN req : Step(s))

\* ================================================================== claims
HasEvent(r, stage, dir) == \E i \in 1..Len(r.trace) : r.trace[i] = <<stage, dir>>
EventIndex(r, stage, dir) ==
    IF HasEvent(r, stage, dir) THEN Least({i \in 1..Len(r.trace) : r.trace[i] = <<stage, dir>>})
    ELSE 0
\* The stage has handed the request to the next one.
PassedBy(r, stage) ==
    \/ r.pos = Inner(stage) /\ r.dir = "in"
    \/ HasEvent(r, Inner(stage), "in")
\* The stage answered the request itself with this status.
AnsweredBy(r, stage, status) ==
    r.result.kind = "response" /\ r.result.by = stage /\ r.result.status = status
Done(r) == r.pos = "done"

\* The order the spec gives the stages on the way in.
PipelineOrder == <<"RequestLoggingMiddleware", "RateLimitMiddleware", "AuthMiddleware", "proxy">>

\* C1: for every request the stages run on the way in in the order Request
\* Logger, Rate Limiter, Token Authenticator, Reverse Proxy Handler, and on the
\* way out in the reverse order: a stage has started only after every earlier
\* stage has started, and has returned only after every later stage that
\* started has returned.
C1_StagesRunInPipelineOrder ==
    \A s \in DOMAIN req : \A i, j \in 1..Len(PipelineOrder) :
        i < j =>
            /\ HasEvent(req[s], PipelineOrder[j], "in") =>
                 /\ HasEvent(req[s], PipelineOrder[i], "in")
                 /\ EventIndex(req[s], PipelineOrder[i], "in")
                      < EventIndex(req[s], PipelineOrder[j], "in")
            /\ (HasEvent(req[s], PipelineOrder[i], "out") /\ HasEvent(req[s], PipelineOrder[j], "in")) =>
                 /\ HasEvent(req[s], PipelineOrder[j], "out")
                 /\ EventIndex(req[s], PipelineOrder[j], "out")
                      < EventIndex(req[s], PipelineOrder[i], "out")

\* C2: for every caller and window exactly RATE_LIMIT requests succeed: the
\* first RATE_LIMIT requests the limiter handles in a window are allowed (the
\* limiter hands them on), and the next and every later one is denied with 429.
C2_ExactlyLimitPerWindow ==
    \A ip \in DOMAIN window_log :
        \A i \in 1..Len(window_log[ip].reqs) :
            LET e == window_log[ip].reqs[i] IN
            /\ e.allowed <=> i <= RATE_LIMIT
            /\ e.n \in DOMAIN req =>
                 IF i <= RATE_LIMIT
                 THEN PassedBy(req[e.n], "RateLimitMiddleware")
                 ELSE /\ AnsweredBy(req[e.n], "RateLimitMiddleware", 429)
                      /\ ~PassedBy(req[e.n], "RateLimitMiddleware")

\* A window holds more than RATE_LIMIT requests and the latest was answered 429.
C2_Witness ==
    \E ip \in DOMAIN window_log :
        LET reqs == window_log[ip].reqs IN
        /\ Len(reqs) > RATE_LIMIT
        /\ reqs[Len(reqs)].n \in DOMAIN req
        /\ Done(req[reqs[Len(reqs)].n])
        /\ req[reqs[Len(reqs)].n].result.status = 429
        /\ \E i \in 1..RATE_LIMIT : reqs[i].n \in DOMAIN req /\ req[reqs[i].n].result.status = 200

\* C3 as stated: every denial of the limiter carries a retry_after greater than 0.
C3_RetryAfterPositive ==
    \A s \in DOMAIN req :
        AnsweredBy(req[s], "RateLimitMiddleware", 429) => req[s].result.retry_after > 0

\* C3 as amended: every denial carries a retry_after that is not negative; it
\* is greater than 0 exactly when at least one whole second of the window
\* remains when the denied request arrives, and 0 in the last second.
C3_RetryAfterRoundedDown ==
    [][\A s \in DOMAIN req :
         (At(s, "RateLimitMiddleware", "in") /\ s \in DOMAIN req'
            /\ AnsweredBy(req'[s], "RateLimitMiddleware", 429)) =>
           LET ip == RateLimit_get_client_ip(req[s]).value
               left == TIME_WINDOW * TicksPerSecond - (now - requests_store'[ip].time)
           IN  /\ req'[s].result.retry_after >= 0
               /\ req'[s].result.retry_after > 0 <=> left >= TicksPerSecond]_vars

\* A denial in the last second of the window: retry_after is 0.
C3_Witness ==
    \E s \in DOMAIN req :
        AnsweredBy(req[s], "RateLimitMiddleware", 429) /\ req[s].result.retry_after = 0

\* C4: whatever the count of a caller's record was, a request that arrives
\* more than TIME_WINDOW after the record's window start is allowed, sets the
\* window start to its own time and leaves the count at exactly 1.
C4_ResetAfterWindow ==
    [][\A s \in DOMAIN req :
         LET ip == RateLimit_get_client_ip(req[s]) IN
         (At(s, "RateLimitMiddleware", "in") /\ s \in DOMAIN req' /\ req'[s] # req[s]
            /\ ~ip.raised /\ ip.value \in DOMAIN requests_store
            /\ now - requests_store[ip.value].time > TIME_WINDOW * TicksPerSecond) =>
           /\ requests_store'[ip.value] = [count |-> 1, time |-> now]
           /\ PassedBy(req'[s], "RateLimitMiddleware")]_vars

\* A record whose count had passed the limit was replaced by a window of one request.
C4_Witness ==
    \E ip \in DOMAIN window_log :
        /\ window_log[ip].replaced > RATE_LIMIT
        /\ Len(window_log[ip].reqs) = 1
        /\ requests_store[ip] = [count |-> 1, time |-> now]

\* C5: under every interleaving of in-flight requests of one caller no
\* increment is lost (the count of the record is the number of requests the
\* limiter has handled in the window) and at most RATE_LIMIT of them are allowed.
C5_NoLostIncrement ==
    /\ DOMAIN window_log = DOMAIN requests_store
    /\ \A ip \in DOMAIN requests_store :
         /\ requests_store[ip].count = Len(window_log[ip].reqs)
         /\ Cardinality({i \in 1..Len(window_log[ip].reqs) : window_log[ip].reqs[i].allowed})
              <= RATE_LIMIT

\* Two requests of one caller are in flight past the limiter at once, in one window.
C5_Witness ==
    \E ip \in DOMAIN window_log : \E i, j \in 1..Len(window_log[ip].reqs) :
        LET a == window_log[ip].reqs[i].n
            b == window_log[ip].reqs[j].n
        IN  /\ i < j
            /\ a \in DOMAIN req /\ b \in DOMAIN req
            /\ req[a].pos = "upstream"
            /\ req[b].dir = "in"

\* The start and the end entry of the request log both carry the id.
LoggedAtStartAndEnd(r, id) ==
    /\ \E i \in 1..Len(r.log) : r.log[i] = LogEntry("api_gateway.requests", "Incoming request", id)
    /\ \E i \in 1..Len(r.log) :
         \/ r.log[i] = LogEntry("api_gateway.requests", "Request completed", id)
         \/ r.log[i] = LogEntry("api_gateway.requests", "Request failed", id)

\* C6: every response the gateway sends, whatever its outcome, carries an
\* X-Request-ID: the inbound one when the client supplied one, and otherwise
\* the generated id, which the start and the end log entry of the request record.
C6_EveryResponseCarriesRequestId ==
    \A s \in DOMAIN req :
        Done(req[s]) =>
            /\ req[s].result.x_request_id # NoId
            /\ IF Truthy(req[s].x_request_id)
               THEN req[s].result.x_request_id = HeaderId(req[s].x_request_id.value)
               ELSE /\ req[s].result.x_request_id = generate_request_id(req[s].n)
                    /\ LoggedAtStartAndEnd(req[s], generate_request_id(req[s].n))

\* A path under the internal health or metrics prefix.
UnderInternalPrefix(path) ==
    \/ StartsWith(path, <<SLASH, Word("health")>>)
    \/ StartsWith(path, <<SLASH, Word("metrics")>>)

\* C7 as stated: in every state, a request to a path under the health or
\* metrics prefix that carries no Authorization header succeeds.
C7_InternalPathSucceeds ==
    \A s \in DOMAIN req :
        (Done(req[s]) /\ UnderInternalPrefix(req[s].path) /\ ~req[s].authorization.present) =>
            req[s].result.status = 200

\* C7 as amended: a request to a path under the health or metrics prefix that
\* carries no Authorization header is never rejected by the Token
\* Authenticator: the authenticator hands it to the next stage and the
\* response is no 401. The Rate Limiter still applies to it and can answer
\* it with 429.
C7_InternalPathBypassesAuthOnly ==
    \A s \in DOMAIN req :
        (UnderInternalPrefix(req[s].path) /\ ~req[s].authorization.present) =>
            /\ HasEvent(req[s], "AuthMiddleware", "in") => PassedBy(req[s], "AuthMiddleware")
            /\ req[s].result.by # "AuthMiddleware"
            /\ req[s].result.status # 401

\* A health request without Authorization was answered 429 by the Rate Limiter
\* after the authenticator had handed it on.
C7_Witness ==
    \E s \in DOMAIN req :
        /\ Done(req[s])
        /\ UnderInternalPrefix(req[s].path) /\ ~req[s].authorization.present
        /\ HasEvent(req[s], "AuthMiddleware", "out")
        /\ AnsweredBy(req[s], "RateLimitMiddleware", 429)

\* C8: a request to a path that is not internal is rejected with 401 and the
\* missing-header reason when it has no Authorization header, and with 401 and
\* the malformed-header reason when its header is not exactly two tokens the
\* first of which is Bearer in any case; neither is handed to the next stage.
C8_MissingAndMalformedRejected ==
    \A s \in DOMAIN req :
        (~UnderInternalPrefix(req[s].path) /\ HasEvent(req[s], "AuthMiddleware", "in")) =>
            /\ ~req[s].authorization.present =>
                 /\ req[s].result.status = 401
                 /\ req[s].result.detail = "Authorization header missing"
                 /\ ~PassedBy(req[s], "AuthMiddleware")
            /\ (req[s].authorization.present /\ ~WellFormed(Split(req[s].authorization.value))) =>
                 /\ req[s].result.status = 401
                 /\ req[s].result.detail = "Invalid Authorization header format"
                 /\ ~PassedBy(req[s], "AuthMiddleware")

\* C9: for a well-formed Bearer header the verification has exactly one of
\* four outcomes: a token signed with SECRET_KEY and not expired is accepted
\* and its claims are attached to the request; the same token after its expiry
\* is answered 401 "Token expired"; any other token is answered 401 "Invalid
\* token"; an unexpected error is answered 500 and the request goes no further.
C9_VerificationOutcome ==
    [][\A s \in DOMAIN req :
         (/\ At(s, "AuthMiddleware", "in") /\ s \in DOMAIN req' /\ req'[s] # req[s]
          /\ ~UnderInternalPrefix(req[s].path)
          /\ Truthy(req[s].authorization)
          /\ WellFormed(Split(req[s].authorization.value))) =>
           LET token == Split(req[s].authorization.value)[2]
               signed == Len(token) = 1 /\ token[1].text = "jws" /\ token[1].sig = SECRET_KEY
               expired == token[1].exp * TicksPerSecond + TicksPerSecond <= now
               after == req'[s]
           IN  \/ /\ after.result = Response(500, "Unexpected error", "AuthMiddleware")
                  /\ ~PassedBy(after, "AuthMiddleware")
               \/ /\ signed /\ ~expired
                  /\ PassedBy(after, "AuthMiddleware")
                  /\ after.user = [sub |-> token[1].sub, exp |-> token[1].exp]
                  /\ after.result = NoResult
               \/ /\ signed /\ expired
                  /\ after.result = Response(401, "Token expired", "AuthMiddleware")
                  /\ ~PassedBy(after, "AuthMiddleware")
               \/ /\ ~signed
                  /\ after.result = Response(401, "Invalid token", "AuthMiddleware")
                  /\ ~PassedBy(after, "AuthMiddleware")]_vars

\* A token issued by create_jwt_token was presented past its expiry and answered
\* 401 "Token expired".
C9_Witness ==
    \E s \in DOMAIN req :
        /\ req[s].authorization = Bearer("Bearer", create_jwt_token("u1", 0, 0))
        /\ req[s].result = Response(401, "Token expired", "AuthMiddleware")

\* C10: a forwarded request whose upstream call fails at the network level
\* and one whose upstream call times out are answered alike: 503 with the
\* detail "Backend service unavailable", a response that every stage around
\* the proxy hands back as a response (the logger logs it as completed and
\* puts the X-Request-ID on it).
C10_UnreachableAndTimeoutAlike ==
    \A s \in DOMAIN req :
        req[s].backend.kind \in {"ConnectError", "ReadTimeout"} =>
            /\ req[s].result.kind = "response"
            /\ req[s].result.status = 503
            /\ req[s].result.detail = "Backend service unavailable"
            /\ req[s].result.by = "proxy"
            /\ Done(req[s]) =>
                 /\ \A i \in 1..Len(user_middleware) : HasEvent(req[s], user_middleware[i], "out")
                 /\ req[s].log[Len(req[s].log)] =
                      LogEntry("api_gateway.requests", "Request completed", req[s].request_id)
                 /\ req[s].result.x_request_id = req[s].request_id
                 /\ req[s].request_id # NoId

\* The upstream call timed out and the response sent is the 503.
C10_Witness ==
    \E s \in DOMAIN req :
        /\ Done(req[s])
        /\ req[s].backend.kind = "ReadTimeout"
        /\ req[s].result.status = 503
        /\ HasEvent(req[s], "metrics_middleware", "out")

\* C11: for every response the backend returns, with a success or an error
\* status, a JSON or another body, the status of the gateway's response to the
\* client is the backend's own status.
C11_UpstreamStatusRelayed ==
    \A s \in DOMAIN req :
        (Done(req[s]) /\ req[s].backend.kind = "response") =>
            req[s].result.status = req[s].backend.status

\* A path under the proxy prefix /api/.
UnderProxyPrefix(path) == StartsWith(path, <<SLASH, Word("api"), SLASH>>)

\* C12: every request under the proxy prefix that the Token Authenticator and
\* the Rate Limiter have let pass is forwarded to the backend, whatever its
\* method: once it is answered, an upstream call has been made for it.
C12_EveryMethodForwarded ==
    \A s \in DOMAIN req :
        (/\ Done(req[s])
         /\ UnderProxyPrefix(req[s].path)
         /\ PassedBy(req[s], "AuthMiddleware")
         /\ PassedBy(req[s], "RateLimitMiddleware")
         /\ HasEvent(req[s], "router", "in")) =>
            Len(req[s].upstream) >= 1

\* The entries of the Request Logger among those logged for a request.
IsRequestLog(e) == e.logger = "api_gateway.requests"
RequestLogOf(r) == SelectSeq(r.log, IsRequestLog)

\* C13: for every request the gateway receives, the Request Logger emits
\* exactly two entries: a start entry, then one end entry, which is the
\* completion entry when the rest of the pipeline returned a response (401,
\* 429 and 503 included) and the error entry when an unhandled error was
\* raised, the error going on to the outermost boundary.
C13_TwoLogEntriesPerRequest ==
    \A s \in DOMAIN req :
        Done(req[s]) =>
            /\ Len(RequestLogOf(req[s])) = 2
            /\ RequestLogOf(req[s])[1].message = "Incoming request"
            /\ RequestLogOf(req[s])[2].message =
                 IF req[s].result.by = "ServerErrorMiddleware"
                 THEN "Request failed" ELSE "Request completed"

\* The entries the Rate Limiter and the Token Authenticator logged for a request.
IsGateLog(e) == e.logger \in {"api_gateway.ratelimitmiddleware", "api_gateway.authmiddleware"}

\* C15: the correlation id is on the request context before any other
\* middleware runs: the request id the Rate Limiter and the Token
\* Authenticator read from the context, and log, is the request's own
\* correlation id (the inbound X-Request-ID or the generated one), never
\* the placeholder "unknown".
C15_GatesReadCorrelationId ==
    \A s \in DOMAIN req : \A i \in 1..Len(req[s].log) :
        IsGateLog(req[s].log[i]) =>
            /\ req[s].log[i].request_id # UnknownId
            /\ req[s].log[i].request_id =
                 IF Truthy(req[s].x_request_id) THEN HeaderId(req[s].x_request_id.value)
                 ELSE generate_request_id(req[s].n)

\* C17: the Rate Limiter gates before authentication: a request the Token
\* Authenticator answers with 401 has been counted by the Rate Limiter, and a
\* request the Rate Limiter answers with 429 is never examined by the Token
\* Authenticator nor forwarded.
C17_RateLimiterGatesBeforeAuth ==
    \A s \in DOMAIN req :
        /\ AnsweredBy(req[s], "AuthMiddleware", 401) =>
             HasEvent(req[s], "RateLimitMiddleware", "in")
        /\ AnsweredBy(req[s], "RateLimitMiddleware", 429) =>
             /\ ~HasEvent(req[s], "AuthMiddleware", "in")
             /\ req[s].upstream = <<>>

\* C16: the Reverse Proxy Handler neither retries nor fails over: it makes at
\* most one upstream call for a request, and after a failed call the request
\* ends with the error response, no second call having been made.
C16_AtMostOneUpstreamCall ==
    \A s \in DOMAIN req :
        /\ Len(req[s].upstream) <= 1
        /\ req[s].pos = "upstream" => (Len(req[s].upstream) = 1 /\ req[s].backend = NoBackend)
        /\ req[s].backend # NoBackend =>
             /\ Len(req[s].upstream) = 1
             /\ req[s].pos # "upstream"
             /\ req[s].backend.kind \in {"ConnectError", "ReadTimeout"} =>
                  req[s].result.status = 503

\* A request whose only upstream call failed has been answered with the 503.
C16_Witness ==
    \E s \in DOMAIN req :
        /\ Done(req[s])
        /\ req[s].backend.kind = "ConnectError"
        /\ Len(req[s].upstream) = 1
        /\ req[s].result.status = 503

\* C14: every request eventually receives one terminal response: a request in
\* flight is eventually answered; an exception that reaches the outermost
\* boundary is answered there with 500; a response once sent is not replaced
\* by another; and requests received after a failed one are answered too
\* (the first conjunct holds for every arrival number).
C14_EveryRequestAnswered ==
    /\ \A n \in 1..MaxBurst :
         (n \in DOMAIN req) ~>
            (n \in DOMAIN req /\ Done(req[n]) /\ req[n].result.kind = "response")
    /\ [][\A n \in DOMAIN req :
            /\ (At(n, "ServerErrorMiddleware", "out") /\ req[n].result.kind = "exception"
                  /\ n \in DOMAIN req' /\ req'[n] # req[n]) =>
                 (Done(req'[n]) /\ req'[n].result.status = 500)
            /\ Done(req[n]) => (n \notin DOMAIN req' \/ req'[n] = req[n])]_vars

\* The last request of a run was answered 500 at the outermost boundary, for
\* an exception raised in the proxy handler that no stage recognized.
C14_Witness ==
    \E s \in DOMAIN req :
        /\ Done(req[s])
        /\ req[s].n = MaxBurst
        /\ req[s].result = Response(500, "Internal Server Error", "ServerErrorMiddleware")
        /\ req[s].backend.kind = "response"
        /\ HasEvent(req[s], "RequestLoggingMiddleware", "out")

\* C18: the limiter resets only lazily: the record of a caller is changed
\* only by the Rate Limiter handling a request of that caller; the passage of
\* time and the requests of other callers leave its count and its window
\* start as they are, and the record stays in the table.
C18_RecordChangedOnlyByItsCaller ==
    [][\A ip \in DOMAIN requests_store :
         (ip \notin DOMAIN requests_store' \/ requests_store'[ip] # requests_store[ip]) =>
            \E s \in DOMAIN req :
               /\ At(s, "RateLimitMiddleware", "in")
               /\ RateLimit_get_client_ip(req[s]) = Returns(ip)
               /\ s \in DOMAIN req' /\ req'[s] # req[s]]_vars

\* A record above the limit whose window has expired is still as it was,
\* after the limiter has handled a later request of another caller.
C18_Witness ==
    \E a, b \in DOMAIN requests_store :
        /\ a # b
        /\ requests_store[a].count > RATE_LIMIT
        /\ now - requests_store[a].time > TIME_WINDOW * TicksPerSecond
        /\ requests_store[b].time > requests_store[a].time

\* C19: in every state the count of every record in the table is the number
\* of requests of its caller, allowed and denied alike, that the Rate Limiter
\* has handled since the record's window start: it is at least 1, each
\* request arriving within the window (not later than TIME_WINDOW after its
\* start) adds 1 and leaves the window start as it is, and a later request
\* begins a new window with count 1.
C19_CountIsRequestsSinceWindowStart ==
    /\ [](\A ip \in DOMAIN requests_store :
            /\ requests_store[ip].count >= 1
            /\ ip \in DOMAIN window_log
            /\ requests_store[ip].count = Len(window_log[ip].reqs))
    /\ [][\A ip \in DOMAIN requests_store :
            (ip \in DOMAIN requests_store' /\ requests_store'[ip] # requests_store[ip]) =>
               IF now - requests_store[ip].time <= TIME_WINDOW * TicksPerSecond
               THEN /\ requests_store'[ip].time = requests_store[ip].time
                    /\ requests_store'[ip].count = requests_store[ip].count + 1
               ELSE /\ requests_store'[ip].time = now
                    /\ requests_store'[ip].count = 1]_vars

\* A record counts three requests, the last of them denied, of a window that
\* began before now and has not ended.
C19_Witness ==
    \E ip \in DOMAIN requests_store :
        /\ requests_store[ip].count = RATE_LIMIT + 1
        /\ requests_store[ip].time < now
        /\ now - requests_store[ip].time <= TIME_WINDOW * TicksPerSecond
        /\ ~window_log[ip].reqs[RATE_LIMIT + 1].allowed

\* C20: on every denial retry_after is TIME_WINDOW - (now - window start)
\* rounded down to an integer, and lies between 0 and TIME_WINDOW inclusive.
C20_RetryAfterValueAndRange ==
    [][\A s \in DOMAIN req :
         (At(s, "RateLimitMiddleware", "in") /\ s \in DOMAIN req'
            /\ AnsweredBy(req'[s], "RateLimitMiddleware", 429)) =>
           LET ip == RateLimit_get_client_ip(req[s]).value
               left == TIME_WINDOW * TicksPerSecond - (now - requests_store[ip].time)
               retry_after == req'[s].result.retry_after
           IN  /\ ip \in DOMAIN requests_store
               /\ retry_after * TicksPerSecond <= left
               /\ left < (retry_after + 1) * TicksPerSecond
               /\ retry_after >= 0
               /\ retry_after <= TIME_WINDOW]_vars

\* A denial at the very start of the window: retry_after is TIME_WINDOW.
C20_Witness ==
    \E s \in DOMAIN req :
        /\ AnsweredBy(req[s], "RateLimitMiddleware", 429)
        /\ req[s].result.retry_after = TIME_WINDOW

\* C21: the rate-limit table has no eviction: the set of caller ids with a
\* record only grows; a caller that has a record has one in every later state.
C21_NoEviction ==
    [][DOMAIN requests_store \subseteq DOMAIN requests_store']_vars

\* Two callers have a record, and one of the records is still in the table
\* after its window has expired and the other caller's record was created.
C21_Witness ==
    \E a, b \in DOMAIN requests_store :
        /\ a # b
        /\ now - requests_store[a].time > TIME_WINDOW * TicksPerSecond
        /\ requests_store[b].time = now
        /\ requests_store[b].count = 1

\* C22: for every request the rate limiter has resolved the caller of, both
\* resolvers return a value and never raise, the value is the first
\* comma-separated entry of X-Forwarded-For when the request has that header,
\* else X-Real-IP when it has that one, else the transport peer address, else
\* "unknown", and the logger's resolver returns what the limiter's returns.
C22_ResolversReturnAndAgree ==
    \A s \in DOMAIN req :
        HasEvent(req[s], "RateLimitMiddleware", "in") =>
            LET r == req[s]
                resolved ==
                    IF Truthy(r.x_forwarded_for)
                    THEN Strip(UpTo(r.x_forwarded_for.value, COMMA))
                    ELSE IF Truthy(r.x_real_ip) THEN r.x_real_ip.value
                    ELSE IF r.client.present /\ r.client.host # <<>> THEN r.client.host
                    ELSE UNKNOWN
            IN  /\ ~RateLimit_get_client_ip(r).raised
                /\ ~Logging_get_client_ip(r).raised
                /\ RateLimit_get_client_ip(r).value = resolved
                /\ Logging_get_client_ip(r).value = RateLimit_get_client_ip(r).value

\* C23: every upstream call targets the backend base followed by the path of
\* the inbound request, with the method, the query parameters (every pair, in
\* the order sent) and the raw body of the inbound request.
C23_UpstreamCallMirrorsRequest ==
    \A s \in DOMAIN req :
        \A i \in 1..Len(req[s].upstream) :
            /\ req[s].upstream[i].url = <<Word(BACKEND_SERVICE)>> \o req[s].path
            /\ req[s].upstream[i].method = req[s].method
            /\ req[s].upstream[i].params = req[s].query
            /\ req[s].upstream[i].content = req[s].body

\* C24: no upstream call is made for a request whose token was not verified.
\* In every state a request with an upstream call is not under the health or
\* metrics prefix, carries a well-formed Bearer header whose token is signed
\* with SECRET_KEY, and has the claims of that token attached; and on every
\* step by which the authenticator hands on a request that is not under an
\* internal prefix, the token of the request is signed with SECRET_KEY and not
\* expired at the time of the step.
C24_ForwardedOnlyVerified ==
    /\ [](\A s \in DOMAIN req :
            req[s].upstream # <<>> =>
                /\ ~UnderInternalPrefix(req[s].path)
                /\ Truthy(req[s].authorization)
                /\ WellFormed(Split(req[s].authorization.value))
                /\ LET token == Split(req[s].authorization.value)[2]
                   IN  /\ Len(token) = 1 /\ token[1].text = "jws"
                       /\ token[1].sig = SECRET_KEY
                       /\ req[s].user = [sub |-> token[1].sub, exp |-> token[1].exp])
    /\ [][\A s \in DOMAIN req :
            (/\ At(s, "AuthMiddleware", "in") /\ s \in DOMAIN req'
             /\ PassedBy(req'[s], "AuthMiddleware")
             /\ ~UnderInternalPrefix(req[s].path)) =>
                /\ Truthy(req[s].authorization)
                /\ WellFormed(Split(req[s].authorization.value))
                /\ LET token == Split(req[s].authorization.value)[2]
                   IN  /\ Len(token) = 1 /\ token[1].text = "jws"
                       /\ token[1].sig = SECRET_KEY
                       /\ token[1].exp >= now \div TicksPerSecond]_vars

\* A request under the proxy prefix whose token is signed with SECRET_KEY has
\* passed the authenticator, has been forwarded to the backend and answered.
C24_Witness ==
    \E s \in DOMAIN req :
        /\ Done(req[s]) /\ Len(req[s].upstream) = 1
        /\ UnderProxyPrefix(req[s].path)
        /\ req[s].user = Payload(create_jwt_token("u1", 0, 0))
        /\ HasEvent(req[s], "AuthMiddleware", "out")
        /\ req[s].result.by = "proxy"

\* The requests the limiter let pass in the current window of a record.
AllowedInWindow(ip) ==
    Cardinality({i \in 1..Len(window_log[ip].reqs) : window_log[ip].reqs[i].allowed})

\* C25: the record charged for a request is chosen by the resolved caller id
\* alone, which the headers of the request override: on every step of the
\* Rate Limiter the one record written is the record of the first entry of
\* X-Forwarded-For when the request has that header, else of X-Real-IP when it
\* has that one, else of the transport peer; the records of all other ids,
\* the one of the transport peer of a request with such a header included,
\* stay as they are.
C25_ChargedByResolvedIdAlone ==
    [][\A s \in DOMAIN req :
         (At(s, "RateLimitMiddleware", "in") /\ s \in DOMAIN req' /\ req'[s] # req[s]) =>
            LET r == req[s]
                named == Truthy(r.x_forwarded_for) \/ Truthy(r.x_real_ip)
                id == IF Truthy(r.x_forwarded_for)
                      THEN Strip(UpTo(r.x_forwarded_for.value, COMMA))
                      ELSE IF Truthy(r.x_real_ip) THEN r.x_real_ip.value
                      ELSE IF r.client.host # <<>> THEN r.client.host
                      ELSE UNKNOWN
            IN  IF ~named /\ ~r.client.present
                THEN requests_store' = requests_store
                ELSE /\ DOMAIN requests_store' = DOMAIN requests_store \cup {id}
                     /\ requests_store'[id].count >= 1
                     /\ id \in DOMAIN requests_store =>
                           requests_store'[id] # requests_store[id]
                     /\ \A ip \in DOMAIN requests_store \ {id} :
                           requests_store'[ip] = requests_store[ip]]_vars

\* One transport peer has got more than RATE_LIMIT requests past the limiter
\* in one window: RATE_LIMIT of them charged to the record of its own address,
\* and one more, carrying X-Forwarded-For, charged to the record of the address
\* the header names, while both windows are running.
C25_Witness ==
    \E s \in DOMAIN req :
        LET peer == req[s].client.host
            named == Strip(UpTo(req[s].x_forwarded_for.value, COMMA))
        IN  /\ req[s].client = Peer
            /\ Truthy(req[s].x_forwarded_for)
            /\ named # peer
            /\ PassedBy(req[s], "RateLimitMiddleware")
            /\ peer \in DOMAIN requests_store /\ named \in DOMAIN requests_store
            /\ now - requests_store[peer].time <= TIME_WINDOW * TicksPerSecond
            /\ now - requests_store[named].time <= TIME_WINDOW * TicksPerSecond
            /\ AllowedInWindow(peer) = RATE_LIMIT
            /\ AllowedInWindow(named) >= 1
            /\ AllowedInWindow(peer) + AllowedInWindow(named) > RATE_LIMIT

====
